---- MODULE Spec2Model ----
(***************************************************************************)
(* Model of custom_components/smartthings/fan.py: the capability detector, *)
(* the platform setup function and the two fan entities (SmartThingsFan,   *)
(* SmartThingsHoodFan).                                                    *)
(*                                                                         *)
(* Python values are represented as follows.                               *)
(*   - An optional value (an int or None, a list or None) is a record      *)
(*     [none |-> BOOLEAN, v |-> value]; PyNone has none = TRUE.            *)
(*   - The result of a bool property that may fall off the end of the      *)
(*     function is one of the strings "True", "False", "None".             *)
(*   - A device attribute value is a decimal string, represented as the    *)
(*     sequence of its digits (<<1, 0>> is "10"); int() parses it.         *)
(*   - The calls an operation makes on its collaborators (the device       *)
(*     handle, the entity base class) are recorded, in program order, in   *)
(*     call.effects, each with whether the source awaits it.               *)
(***************************************************************************)
EXTENDS Integers, Sequences, FiniteSets

VARIABLES
    devices,     \* broker.devices: device_id -> advertised capability ids
    assigned,    \* device ids the broker has assigned the "fan" platform
    entities,    \* what async_add_entities received, [none, v: Seq(entity)]
    status,      \* device.status of the device handle the entities wrap
    hoodComp,    \* device.status.components.get('hood') of that handle
    fanEntity,   \* the SmartThingsFan on that handle has been constructed
    hoodEntity,  \* the SmartThingsHoodFan on that handle (its own fields)
    call         \* the last operation invoked: name, arguments, effects, result

vars == <<devices, assigned, entities, status, hoodComp, fanEntity, hoodEntity, call>>

brokerVars == <<devices, assigned, entities>>
deviceVars == <<status, hoodComp>>
entityVars == <<fanEntity, hoodEntity>>

----------------------------------------------------------------------------
(* Bounds of the model *)

\* number of devices the broker holds
NumDevices == 2

\* largest speed value the hood component reports in its attributes
MaxDeviceSpeed == 10

----------------------------------------------------------------------------
(* Python values *)

PyNone == [none |-> TRUE, v |-> 0]
PyInt(n) == [none |-> FALSE, v |-> n]

NoList == [none |-> TRUE, v |-> <<>>]
PyList(s) == [none |-> FALSE, v |-> s]

\* the decimal string of a natural number below 100, as its digits
Str(n) == IF n < 10 THEN <<n>> ELSE <<n \div 10, n % 10>>

\* int(s) of a decimal string
RECURSIVE int(_)
int(s) ==
    IF Len(s) = 0 THEN 0
    ELSE 10 * int(SubSeq(s, 1, Len(s) - 1)) + s[Len(s)]

----------------------------------------------------------------------------
(* Module constants *)

SPEED_RANGE == <<1, 3>>

CapSwitch == "switch"
CapFanSpeed == "fanSpeed"
CapSwitchLevel == "switchLevel"
HOOD_FAN_CAPABILITY == "samsungce.hoodFanSpeed"

STANDARD_FAN_CAPABILITIES == <<CapSwitch, CapFanSpeed>>

\* the capability identifiers a device may advertise
CapIds == {CapSwitch, CapFanSpeed, CapSwitchLevel, HOOD_FAN_CAPABILITY}

----------------------------------------------------------------------------
(* homeassistant.util.percentage *)

states_in_range(r) == r[2] - r[1] + 1

int_states_in_range(r) == states_in_range(r)

\* variant: the percentage rounded to the nearest integer instead of down
ranged_value_to_percentage_rounded(r, value) ==
    ((value - (r[1] - 1)) * 200 + states_in_range(r)) \div (2 * states_in_range(r))

\* int(((value - offset) * 100) // states_in_range(range)): floor division
ranged_value_to_percentage(r, value) ==
    ((value - (r[1] - 1)) * 100) \div states_in_range(r)

\* variant: the ranged value rounded down instead of up
floor_percentage_to_ranged_value(r, percentage) ==
    ((states_in_range(r) * percentage) \div 100) + (r[1] - 1)

\* math.ceil(percentage_to_ranged_value(range, percentage)), where
\* percentage_to_ranged_value is states_in_range(range) * percentage / 100 + offset
ceil_percentage_to_ranged_value(r, percentage) ==
    ((states_in_range(r) * percentage + 99) \div 100) + (r[1] - 1)

----------------------------------------------------------------------------
(* Capability detector *)

\* variant: the standard pair is looked for before the hood capability
get_capabilities_standard_first(capabilities) ==
    IF \A i \in 1..Len(STANDARD_FAN_CAPABILITIES) :
           STANDARD_FAN_CAPABILITIES[i] \in capabilities
    THEN PyList(STANDARD_FAN_CAPABILITIES)
    ELSE IF HOOD_FAN_CAPABILITY \in capabilities
         THEN PyList(<<HOOD_FAN_CAPABILITY>>)
         ELSE NoList

get_capabilities(capabilities) ==
    IF HOOD_FAN_CAPABILITY \in capabilities
    THEN PyList(<<HOOD_FAN_CAPABILITY>>)
    ELSE IF \A i \in 1..Len(STANDARD_FAN_CAPABILITIES) :
                STANDARD_FAN_CAPABILITIES[i] \in capabilities
         THEN PyList(STANDARD_FAN_CAPABILITIES)
         ELSE NoList

----------------------------------------------------------------------------
(* The record of the last operation *)

NoCall ==
    [op |-> "none", caps |-> {}, p |-> PyNone, effects |-> <<>>,
     raised |-> FALSE, retList |-> NoList,
     is_on |-> "None", percentage |-> 0, speed_count |-> 0]

\* a call the source makes on the device handle or on the entity base class
Effect(fn, awaited) ==
    [fn |-> fn, awaited |-> awaited, set_status |-> FALSE, component_id |-> "",
     capability |-> "", command |-> "", value |-> 0]

switch_on == [Effect("switch_on", TRUE) EXCEPT !.set_status = TRUE]
switch_off == [Effect("switch_off", TRUE) EXCEPT !.set_status = TRUE]
set_fan_speed(value) ==
    [Effect("set_fan_speed", TRUE) EXCEPT !.set_status = TRUE, !.value = value]
async_write_ha_state == Effect("async_write_ha_state", TRUE)
\* async_update_ha_state(True) is called without await
async_update_ha_state == Effect("async_update_ha_state", FALSE)

----------------------------------------------------------------------------
(* Broker and setup *)

DeviceIds == 1..NumDevices

\* broker.any_assigned(device_id, platform)
any_assigned(device_id, platform) == platform = "fan" /\ device_id \in assigned

SmartThingsFan(device_id) == [cls |-> "SmartThingsFan", device_id |-> device_id]
SmartThingsHoodFan(device_id) == [cls |-> "SmartThingsHoodFan", device_id |-> device_id]

\* the list comprehension of async_setup_entry over broker.devices.values(),
\* devices lo..NumDevices, in the order of the mapping
RECURSIVE fan_entities(_)
fan_entities(lo) ==
    IF lo > NumDevices THEN <<>>
    ELSE (IF any_assigned(lo, "fan") THEN <<SmartThingsFan(lo)>> ELSE <<>>)
         \o fan_entities(lo + 1)

async_setup_entry ==
    /\ entities.none
    /\ entities' = PyList(fan_entities(1))
    /\ call' = [NoCall EXCEPT !.op = "async_setup_entry"]
    /\ UNCHANGED <<devices, assigned, deviceVars, entityVars>>

GetCapabilities ==
    \E capabilities \in SUBSET CapIds :
        /\ call' = [NoCall EXCEPT !.op = "get_capabilities",
                                  !.caps = capabilities,
                                  !.retList = get_capabilities(capabilities)]
        /\ UNCHANGED <<brokerVars, deviceVars, entityVars>>

----------------------------------------------------------------------------
(* The device handle *)

NoAttr == [has |-> FALSE, value |-> <<>>]
Attr(n) == [has |-> TRUE, value |-> Str(n)]

NoHood == [present |-> FALSE, settableMaxFanSpeed |-> NoAttr, hoodFanSpeed |-> NoAttr]

MaxSpeedAttrs == {NoAttr} \cup {Attr(n) : n \in 1..MaxDeviceSpeed}
SpeedAttrs == {NoAttr} \cup {Attr(n) : n \in 0..MaxDeviceSpeed}

HoodComps ==
    {NoHood} \cup
    [present : {TRUE}, settableMaxFanSpeed : MaxSpeedAttrs, hoodFanSpeed : SpeedAttrs]

Statuses == [switch : BOOLEAN, fan_speed : 0..SPEED_RANGE[2]]

\* DeviceEntity.switch_on / switch_off / set_fan_speed with set_status=True
status_after(effect) ==
    IF effect.fn = "switch_on" THEN [status EXCEPT !.switch = TRUE]
    ELSE IF effect.fn = "switch_off" THEN [status EXCEPT !.switch = FALSE]
    ELSE IF effect.fn = "set_fan_speed"
         THEN [switch |-> effect.value > 0, fan_speed |-> effect.value]
         ELSE status

\* the attribute values a push update of the hood component delivers
PushedSpeedAttrs == {NoAttr, Attr(0), Attr(1), Attr(MaxDeviceSpeed)}

\* a push update from the cloud changes the status snapshot of the handle:
\* the main component of a device without a hood component
PushStatus ==
    /\ ~hoodComp.present
    /\ \E s \in Statuses : s # status /\ status' = s
    /\ call' = [NoCall EXCEPT !.op = "push"]
    /\ UNCHANGED <<brokerVars, hoodComp, entityVars>>

\* a push update of the hoodFanSpeed attribute of the hood component
PushHood ==
    /\ hoodComp.present
    /\ \E a \in PushedSpeedAttrs :
           /\ a # hoodComp.hoodFanSpeed
           /\ hoodComp' = [hoodComp EXCEPT !.hoodFanSpeed = a]
    /\ call' = [NoCall EXCEPT !.op = "push"]
    /\ UNCHANGED <<brokerVars, status, entityVars>>

----------------------------------------------------------------------------
(* Arguments of the entity operations *)

\* the percentage argument: None, or an integer percentage
Percentages == {PyNone} \cup {PyInt(n) : n \in 0..100}

\* the percentage argument of turn_on, which passes it on to set_percentage
TurnOnPercentages == {PyNone, PyInt(0), PyInt(1), PyInt(50), PyInt(100)}

----------------------------------------------------------------------------
(* SmartThingsFan *)

\* setup makes one entity for a device: SmartThingsFan(device), here for a
\* device without a hood component
FanInit ==
    /\ ~fanEntity /\ ~hoodEntity.made
    /\ ~hoodComp.present
    /\ fanEntity' = TRUE
    /\ call' = [NoCall EXCEPT !.op = "fan.__init__"]
    /\ UNCHANGED <<brokerVars, deviceVars, hoodEntity>>

\* variant: without the branch for percentage == 0
fan_set_percentage_command_no_off(percentage) ==
    IF percentage.none THEN switch_on
    ELSE set_fan_speed(ceil_percentage_to_ranged_value(SPEED_RANGE, percentage.v))

\* the device call of SmartThingsFan.async_set_percentage
fan_set_percentage_command(percentage) ==
    IF percentage.none THEN switch_on
    ELSE IF percentage.v = 0 THEN switch_off
    ELSE set_fan_speed(ceil_percentage_to_ranged_value(SPEED_RANGE, percentage.v))

fan_async_set_percentage(op, percentage) ==
    /\ fanEntity
    /\ status' = status_after(fan_set_percentage_command(percentage))
    /\ call' = [NoCall EXCEPT
                   !.op = op,
                   !.p = percentage,
                   !.effects = <<fan_set_percentage_command(percentage),
                                 async_update_ha_state>>]
    /\ UNCHANGED <<brokerVars, hoodComp, entityVars>>

FanSetPercentage ==
    \E percentage \in Percentages :
        fan_async_set_percentage("fan.async_set_percentage", percentage)

FanTurnOn ==
    \E percentage \in TurnOnPercentages :
        fan_async_set_percentage("fan.async_turn_on", percentage)

FanTurnOff ==
    /\ fanEntity
    /\ status' = status_after(switch_off)
    /\ call' = [NoCall EXCEPT !.op = "fan.async_turn_off",
                              !.effects = <<switch_off, async_write_ha_state>>]
    /\ UNCHANGED <<brokerVars, hoodComp, entityVars>>

\* variant: the range includes 0 (off)
fan_percentage_with_off == ranged_value_to_percentage(<<0, 3>>, status.fan_speed)

fan_is_on == IF status.switch THEN "True" ELSE "False"
fan_percentage == ranged_value_to_percentage(SPEED_RANGE, status.fan_speed)
fan_speed_count == int_states_in_range(SPEED_RANGE)

\* the platform reads the properties of the entity
FanRead ==
    /\ fanEntity
    /\ call' = [NoCall EXCEPT !.op = "fan.read",
                              !.is_on = fan_is_on,
                              !.percentage = fan_percentage,
                              !.speed_count = fan_speed_count]
    /\ UNCHANGED <<brokerVars, deviceVars, entityVars>>

----------------------------------------------------------------------------
(* SmartThingsHoodFan *)

DefaultCurrentSpeed == 0
DefaultMaxSpeed == 5

NoHoodEntity == [made |-> FALSE, hood |-> FALSE, current_speed |-> 0, max_speed |-> 0]

\* attributes[name].value passed to int(): an absent key raises
attribute_int(attr) ==
    [raised |-> ~attr.has, v |-> IF attr.has THEN int(attr.value) ELSE 0]

\* SmartThingsHoodFan.__init__ on a handle whose 'hood' component is comp
hood_init(comp) ==
    LET readMax == comp.present /\ comp.settableMaxFanSpeed.has
        readCur == comp.present /\ comp.hoodFanSpeed.has
        maxRead == attribute_int(comp.settableMaxFanSpeed)
        curRead == attribute_int(comp.hoodFanSpeed)
    IN  [raised |-> (readMax /\ maxRead.raised) \/ (readCur /\ curRead.raised),
         hood |-> comp.present,
         current_speed |-> IF readCur THEN curRead.v ELSE DefaultCurrentSpeed,
         max_speed |-> IF readMax THEN maxRead.v ELSE DefaultMaxSpeed]

HoodInit ==
    /\ ~hoodEntity.made /\ ~fanEntity
    /\ LET e == hood_init(hoodComp) IN
        /\ hoodEntity' = IF e.raised THEN hoodEntity
                         ELSE [made |-> TRUE, hood |-> e.hood,
                               current_speed |-> e.current_speed,
                               max_speed |-> e.max_speed]
        /\ call' = [NoCall EXCEPT !.op = "hood.__init__", !.raised = e.raised]
    /\ UNCHANGED <<brokerVars, deviceVars, fanEntity>>

\* variant: no percentage resumes the last known speed
hood_speed_last_known(percentage) ==
    IF percentage.none THEN hoodEntity.current_speed
    ELSE IF percentage.v = 0 THEN 0
    ELSE ceil_percentage_to_ranged_value(<<1, hoodEntity.max_speed>>, percentage.v)

\* the speed SmartThingsHoodFan.async_set_percentage computes
hood_speed(percentage) ==
    IF percentage.none THEN hoodEntity.max_speed
    ELSE IF percentage.v = 0 THEN 0
    ELSE ceil_percentage_to_ranged_value(<<1, hoodEntity.max_speed>>, percentage.v)

\* self._device.command(...), called without await
setHoodFanSpeed(speed) ==
    [Effect("command", FALSE) EXCEPT !.component_id = "hood",
                                     !.capability = "samsungce.hoodFanSpeed",
                                     !.command = "setHoodFanSpeed",
                                     !.value = speed]

hood_async_set_percentage(op, percentage) ==
    /\ hoodEntity.made
    /\ call' = [NoCall EXCEPT
                   !.op = op,
                   !.p = percentage,
                   !.effects = <<setHoodFanSpeed(hood_speed(percentage)),
                                 async_write_ha_state>>]
    /\ UNCHANGED <<brokerVars, deviceVars, entityVars>>

HoodSetPercentage ==
    \E percentage \in Percentages :
        hood_async_set_percentage("hood.async_set_percentage", percentage)

HoodTurnOn ==
    \E percentage \in TurnOnPercentages :
        hood_async_set_percentage("hood.async_turn_on", percentage)

HoodTurnOff == hood_async_set_percentage("hood.async_turn_off", PyInt(0))

\* DeviceStatusBase.is_on(attribute): bool() of the attribute's value
component_is_on(attr) == IF attr.has /\ Len(attr.value) > 0 THEN "True" ELSE "False"

hood_is_on ==
    IF hoodEntity.hood THEN component_is_on(hoodComp.hoodFanSpeed)
    ELSE "None"

\* variant: the percentage is taken over the device's own range
hood_percentage_over_max ==
    ranged_value_to_percentage(<<1, hoodEntity.max_speed>>, hoodEntity.current_speed)

hood_percentage == ranged_value_to_percentage(SPEED_RANGE, hoodEntity.current_speed)
hood_speed_count == hoodEntity.max_speed

HoodRead ==
    /\ hoodEntity.made
    /\ call' = [NoCall EXCEPT !.op = "hood.read",
                              !.is_on = hood_is_on,
                              !.percentage = hood_percentage,
                              !.speed_count = hood_speed_count]
    /\ UNCHANGED <<brokerVars, deviceVars, entityVars>>

----------------------------------------------------------------------------
(* Specifications *)

\* the broker after it has assigned capabilities to platforms: "fan" is
\* assigned only to devices for which the detector returned capabilities
InitSetup ==
    /\ devices \in [DeviceIds -> SUBSET CapIds]
    /\ assigned \in SUBSET {d \in DeviceIds : ~get_capabilities(devices[d]).none}
    /\ entities = NoList
    /\ status = [switch |-> FALSE, fan_speed |-> 0]
    /\ hoodComp = NoHood
    /\ fanEntity = FALSE
    /\ hoodEntity = NoHoodEntity
    /\ call = NoCall

NextSetup == GetCapabilities \/ async_setup_entry

SpecSetup == InitSetup /\ [][NextSetup]_vars

\* one device handle, with any status snapshot, before its entities are made
Init ==
    /\ devices = [d \in DeviceIds |-> {}]
    /\ assigned = {}
    /\ entities = NoList
    /\ status \in Statuses
    /\ hoodComp \in HoodComps
    /\ hoodComp.present => status = [switch |-> FALSE, fan_speed |-> 0]
    /\ fanEntity = FALSE
    /\ hoodEntity = NoHoodEntity
    /\ call = NoCall

Next ==
    \/ PushStatus
    \/ PushHood
    \/ FanInit
    \/ FanSetPercentage
    \/ FanTurnOn
    \/ FanTurnOff
    \/ FanRead
    \/ HoodInit
    \/ HoodSetPercentage
    \/ HoodTurnOn
    \/ HoodTurnOff
    \/ HoodRead

Spec == Init /\ [][Next]_vars

----------------------------------------------------------------------------
(* Claims *)

FanSetOps == {"fan.async_set_percentage", "fan.async_turn_on"}
HoodSetOps == {"hood.async_set_percentage", "hood.async_turn_on", "hood.async_turn_off"}

\* the calls of device function fn among the effects of the last operation
Calls(fn) == {i \in 1..Len(call.effects) : call.effects[i].fn = fn}

\* C1: get_capabilities returns exactly [hood-fan-speed] when that identifier
\* is advertised, whatever else is; otherwise the pair [switch, fan_speed] if
\* and only if both are advertised; otherwise None.
C1_Detector ==
    call.op = "get_capabilities" =>
        LET hood == "samsungce.hoodFanSpeed" \in call.caps
            both == {"switch", "fanSpeed"} \subseteq call.caps
            pair == [none |-> FALSE, v |-> <<"switch", "fanSpeed">>]
        IN  /\ hood => call.retList = [none |-> FALSE, v |-> <<"samsungce.hoodFanSpeed">>]
            /\ ~hood => (call.retList = pair <=> both)
            /\ (~hood /\ ~both) => call.retList.none

C1_Witness ==
    /\ call.op = "get_capabilities"
    /\ call.caps = {"switch", "fanSpeed", "samsungce.hoodFanSpeed"}
    /\ call.retList.v = <<"samsungce.hoodFanSpeed">>

C3_NoneIsOn ==
    call.p.none =>
        /\ call.op \in FanSetOps =>
               /\ call.effects[1] = switch_on
               /\ Calls("set_fan_speed") = {}
        /\ call.op \in {"hood.async_set_percentage", "hood.async_turn_on"} =>
               /\ Calls("command") = {1}
               /\ call.effects[1].command = "setHoodFanSpeed"
               /\ call.effects[1].value = hoodEntity.max_speed

C3_Witness ==
    /\ call.op = "hood.async_turn_on"
    /\ call.p.none
    /\ hoodEntity.max_speed = 7
    /\ hoodEntity.current_speed = 3
    /\ call.effects[1].value = 7

\* C4: on the standard fan, for a remote speed s in 1..3, set_percentage with
\* the percentage just read from the percentage property sends set_fan_speed
\* with exactly s; and the remote speed 0 reads as 0%.
C4_RoundTrip ==
    /\ [][(/\ call.op = "fan.read"
           /\ status.fan_speed \in 1..3
           /\ call'.op = "fan.async_set_percentage"
           /\ call'.p = PyInt(call.percentage))
          => (/\ Len(call'.effects) >= 1
              /\ call'.effects[1].fn = "set_fan_speed"
              /\ call'.effects[1].value = status.fan_speed)]_vars
    /\ []((call.op = "fan.read" /\ status.fan_speed = 0) => call.percentage = 0)

C4_Witness ==
    /\ call.op = "fan.async_set_percentage"
    /\ call.p = PyInt(66)
    /\ call.effects[1].fn = "set_fan_speed"
    /\ call.effects[1].value = 2
    /\ status.fan_speed = 2

\* C5 as stated: at remote speed 2 the standard fan's percentage is 67, and
\* speed_count is 3 in every state.
C5_Original ==
    call.op = "fan.read" =>
        /\ status.fan_speed = 2 => call.percentage = 67
        /\ call.speed_count = 3

\* C5, amended: at remote speed 2 the standard fan's percentage is 66 (the
\* conversion rounds down), and speed_count is 3 in every state.
C5_Percentage ==
    call.op = "fan.read" =>
        /\ status.fan_speed = 2 => call.percentage = 66
        /\ call.speed_count = 3

C5_Witness ==
    /\ call.op = "fan.read"
    /\ status.fan_speed = 2
    /\ call.percentage = 66
    /\ call.speed_count = 3

\* C6: constructing and reading a hood fan never raises for a missing
\* component or attribute: without the 'hood' component or without
\* settableMaxFanSpeed max_speed is 5 (7 for the value "7"), without
\* hoodFanSpeed current_speed is 0, and without the component is_on is false.
C6_Defaults ==
    /\ call.op = "hood.__init__" =>
           /\ ~call.raised
           /\ hoodEntity.made
           /\ (~hoodComp.present \/ ~hoodComp.settableMaxFanSpeed.has)
                  => hoodEntity.max_speed = 5
           /\ (hoodComp.present /\ hoodComp.settableMaxFanSpeed = [has |-> TRUE, value |-> <<7>>])
                  => hoodEntity.max_speed = 7
           /\ (~hoodComp.present \/ ~hoodComp.hoodFanSpeed.has)
                  => hoodEntity.current_speed = 0
    /\ call.op = "hood.read" =>
           /\ ~call.raised
           /\ ~hoodComp.present => call.is_on = "False"

\* C7: setup registers exactly one entity for every device that has "fan"
\* assigned and none for another device, and the entity of a device that
\* advertises the hood-fan-speed capability is a SmartThingsHoodFan, of any
\* other device a SmartThingsFan.
C7_Setup ==
    ~entities.none =>
        /\ \A d \in DeviceIds :
               Cardinality({i \in 1..Len(entities.v) : entities.v[i].device_id = d})
                   = IF any_assigned(d, "fan") THEN 1 ELSE 0
        /\ \A i \in 1..Len(entities.v) :
               LET d == entities.v[i].device_id
               IN  entities.v[i] = IF "samsungce.hoodFanSpeed" \in devices[d]
                                   THEN SmartThingsHoodFan(d)
                                   ELSE SmartThingsFan(d)

\* C8: for a hood fan, through every set_percentage, turn_on, turn_off and
\* push update, the entity keeps the max_speed and current_speed it read when
\* it was constructed; speed_count is that max_speed and percentage is the
\* conversion of that current_speed over the fixed range [1,3] (constructed
\* with "10" and "3": speed_count 10, and the percentage of 3 in [1,3], 100).
C8_Cached ==
    /\ [](call.op = "hood.__init__" =>
            /\ hoodEntity.max_speed =
                   IF hoodComp.present /\ hoodComp.settableMaxFanSpeed.has
                   THEN int(hoodComp.settableMaxFanSpeed.value) ELSE 5
            /\ hoodEntity.current_speed =
                   IF hoodComp.present /\ hoodComp.hoodFanSpeed.has
                   THEN int(hoodComp.hoodFanSpeed.value) ELSE 0)
    /\ [][hoodEntity.made => hoodEntity' = hoodEntity]_vars
    /\ [](call.op = "hood.read" =>
            /\ call.speed_count = hoodEntity.max_speed
            /\ call.percentage = (hoodEntity.current_speed * 100) \div 3
            /\ (hoodEntity.max_speed = 10 /\ hoodEntity.current_speed = 3)
                   => (call.speed_count = 10 /\ call.percentage = 100))

C8_Witness ==
    /\ call.op = "hood.read"
    /\ hoodEntity.max_speed = 10
    /\ hoodEntity.current_speed = 3
    /\ hoodComp.hoodFanSpeed = [has |-> TRUE, value |-> <<0>>]
    /\ call.speed_count = 10
    /\ call.percentage = 100

C10_PercentageRange ==
    (/\ call.op = "hood.read"
     /\ hoodEntity.max_speed >= 1
     /\ hoodEntity.current_speed \in 0..hoodEntity.max_speed)
        => call.percentage \in 0..100

====
